---- MODULE Spec2Model ----
(***************************************************************************)
(* completion_aggregator/xapi.py: the xAPI transformers of the completion  *)
(* aggregator.  One transformer instance is built for one event; the       *)
(* model follows that instance through the calls the framework makes on    *)
(* it (verb, object, result, context activities, and direct reads of the   *)
(* memoized object_id).                                                    *)
(*                                                                         *)
(* Python values are records [t, n, s]: t is the Python type, n the number *)
(* (a float is held in tenths, so 1.0 is n = 10 and 0.5 is n = 5), s the   *)
(* string.  A key that the event dictionary does not hold is the slot      *)
(* value Absent.                                                           *)
(***************************************************************************)
EXTENDS Integers, Sequences, FiniteSets, TLC

VARIABLES key, cls, event, inst, hist, ret, nops

vars == <<key, cls, event, inst, hist, ret, nops>>

\* Calls made on one transformer instance before it is discarded.
MaxOps == 3

----------------------------------------------------------------------------
\* Python values

Absent == [t |-> "absent", n |-> 0, s |-> ""]
None == [t |-> "NoneType", n |-> 0, s |-> ""]
PyBool(b) == [t |-> "bool", n |-> IF b THEN 1 ELSE 0, s |-> ""]
PyInt(i) == [t |-> "int", n |-> i, s |-> ""]
PyFloat10(tenths) == [t |-> "float", n |-> tenths, s |-> ""]
PyStr(str) == [t |-> "str", n |-> 0, s |-> str]

IsNumber(v) == v.t \in {"bool", "int", "float"}

\* The value of a number in tenths.
Tenths(v) == IF v.t = "float" THEN v.n ELSE 10 * v.n

\* bool(v): what `not v` and `v or d` test.
Truthy(v) ==
    CASE v.t = "NoneType" -> FALSE
      [] v.t = "str" -> v.s # ""
      [] OTHER -> v.n # 0

\* a or b
PyOr(a, b) == IF Truthy(a) THEN a ELSE b

\* a == b: numbers compare by value across bool, int and float.
PyEq(a, b) ==
    IF IsNumber(a) /\ IsNumber(b) THEN Tenths(a) = Tenths(b)
    ELSE a.t = b.t /\ a.s = b.s

Digits == <<"0", "1", "2", "3", "4", "5", "6", "7", "8", "9">>

\* '{}'.format(v) for the identifier values an event carries.
PyFormat(v) ==
    CASE v.t = "str" -> v.s
      [] v.t = "int" /\ v.n \in 0..9 -> Digits[v.n + 1]
      [] v.t = "NoneType" -> "None"
      [] OTHER -> "?"

----------------------------------------------------------------------------
\* Constants of the xAPI vocabulary

XAPI_VERB_COMPLETED == "http://adlnet.gov/expapi/verbs/completed"
XAPI_VERB_PROGRESSED == "http://adlnet.gov/expapi/verbs/progressed"
XAPI_ACTIVITY_MODULE == "http://adlnet.gov/expapi/activities/module"
XAPI_ACTIVITY_COURSE == "http://adlnet.gov/expapi/activities/course"
XAPI_ACTIVITY_LESSON == "http://adlnet.gov/expapi/activities/lesson"
LMS_ROOT_URL == "http://lms"

----------------------------------------------------------------------------
\* The class hierarchy

BaseCompletionTransformer == "BaseCompletionTransformer"
ModuleCompletionTransformer == "ModuleCompletionTransformer"
LessonCompletionTransformer == "LessonCompletionTransformer"
CourseCompletionTransformer == "CourseCompletionTransformer"
BaseProgressTransformer == "BaseProgressTransformer"
ModuleProgressTransformer == "ModuleProgressTransformer"
LessonProgressTransformer == "LessonProgressTransformer"
CourseProgressTransformer == "CourseProgressTransformer"
XApiTransformer == "XApiTransformer"

CompletionClasses ==
    {ModuleCompletionTransformer, LessonCompletionTransformer, CourseCompletionTransformer}
ProgressClasses ==
    {ModuleProgressTransformer, LessonProgressTransformer, CourseProgressTransformer}
ConcreteClasses == CompletionClasses \cup ProgressClasses
BaseClasses == {BaseCompletionTransformer, BaseProgressTransformer}
Classes == ConcreteClasses \cup BaseClasses

\* Mutant: the lesson classes derive from the bases, not from the module classes.
Parent_LessonFromBase(c) ==
    CASE c \in CompletionClasses -> BaseCompletionTransformer
      [] c \in ProgressClasses -> BaseProgressTransformer
      [] c \in BaseClasses -> XApiTransformer
      [] OTHER -> "object"

\* The base named in each class statement.
Parent(c) ==
    CASE c = BaseCompletionTransformer -> XApiTransformer
      [] c = ModuleCompletionTransformer -> BaseCompletionTransformer
      [] c = LessonCompletionTransformer -> ModuleCompletionTransformer
      [] c = CourseCompletionTransformer -> BaseCompletionTransformer
      [] c = BaseProgressTransformer -> XApiTransformer
      [] c = ModuleProgressTransformer -> BaseProgressTransformer
      [] c = LessonProgressTransformer -> ModuleProgressTransformer
      [] c = CourseProgressTransformer -> BaseProgressTransformer
      [] OTHER -> "object"

\* Mutant: the course classes' override is bound under a misspelt name.
ClassAttrs_CourseOverrideMisspelt(c) ==
    CASE c = BaseCompletionTransformer -> {"_verb", "object_type", "object_id", "get_object"}
      [] c = BaseProgressTransformer ->
            {"_verb", "object_type", "additional_fields", "get_object", "get_result"}
      [] c \in {ModuleCompletionTransformer, ModuleProgressTransformer} ->
            {"object_type", "object_id"}
      [] c \in {LessonCompletionTransformer, LessonProgressTransformer} -> {"object_type"}
      [] c \in {CourseCompletionTransformer, CourseProgressTransformer} ->
            {"object_type", "object_id", "get_context_activites"}
      [] c = XApiTransformer ->
            {"get_verb", "get_context_activities", "get_data", "get_object_iri"}
      [] OTHER -> {}

\* The names each class body binds.
ClassAttrs(c) ==
    CASE c = BaseCompletionTransformer -> {"_verb", "object_type", "object_id", "get_object"}
      [] c = ModuleCompletionTransformer -> {"object_type", "object_id"}
      [] c = LessonCompletionTransformer -> {"object_type"}
      [] c = CourseCompletionTransformer ->
            {"object_type", "object_id", "get_context_activities"}
      [] c = BaseProgressTransformer ->
            {"_verb", "object_type", "additional_fields", "get_object", "get_result"}
      [] c = ModuleProgressTransformer -> {"object_type", "object_id"}
      [] c = LessonProgressTransformer -> {"object_type"}
      [] c = CourseProgressTransformer ->
            {"object_type", "object_id", "get_context_activities"}
      [] c = XApiTransformer ->
            {"get_verb", "get_context_activities", "get_data", "get_object_iri"}
      [] OTHER -> {}

\* Attribute lookup along the method resolution order: the first class, from c
\* upwards, whose body binds the name ("object" when none does).
RECURSIVE Resolve(_, _)
Resolve(c, attr) ==
    IF c = "object" THEN "object"
    ELSE IF attr \in ClassAttrs(c) THEN c
    ELSE Resolve(Parent(c), attr)

\* Mutant: BaseProgressTransformer's _verb copied from the completion base.
ClassVerb_ProgressCopied(c) ==
    CASE c \in {BaseCompletionTransformer, BaseProgressTransformer} ->
            [id |-> XAPI_VERB_COMPLETED, display |-> "completed"]
      [] OTHER -> [id |-> "", display |-> ""]

\* _verb as bound in the class bodies.
ClassVerb(c) ==
    CASE c = BaseCompletionTransformer -> [id |-> XAPI_VERB_COMPLETED, display |-> "completed"]
      [] c = BaseProgressTransformer -> [id |-> XAPI_VERB_PROGRESSED, display |-> "progressed"]
      [] OTHER -> [id |-> "", display |-> ""]

\* object_type as bound in the class bodies.
ClassObjectType(c) ==
    CASE c \in {ModuleCompletionTransformer, ModuleProgressTransformer} ->
            PyStr(XAPI_ACTIVITY_MODULE)
      [] c \in {LessonCompletionTransformer, LessonProgressTransformer} ->
            PyStr(XAPI_ACTIVITY_LESSON)
      [] c \in {CourseCompletionTransformer, CourseProgressTransformer} ->
            PyStr(XAPI_ACTIVITY_COURSE)
      [] OTHER -> None

\* self.object_type
object_type(c) == ClassObjectType(Resolve(c, "object_type"))

\* Mutant: the module completion read is not required.
ObjectIdArgs_ModuleOptional(c) ==
    CASE c \in {ModuleCompletionTransformer, ModuleProgressTransformer} ->
            [ns |-> "xblock", path |-> "data.block_id", required |-> FALSE]
      [] c = CourseCompletionTransformer ->
            [ns |-> "courses", path |-> "data.course_id", required |-> TRUE]
      [] c = CourseProgressTransformer ->
            [ns |-> "courses", path |-> "data.course_id", required |-> FALSE]
      [] OTHER -> [ns |-> "", path |-> "", required |-> FALSE]

\* Mutant: the course completion read is not required.
ObjectIdArgs_CourseOptional(c) ==
    CASE c = ModuleCompletionTransformer ->
            [ns |-> "xblock", path |-> "data.block_id", required |-> TRUE]
      [] c = ModuleProgressTransformer ->
            [ns |-> "xblock", path |-> "data.block_id", required |-> FALSE]
      [] c \in {CourseCompletionTransformer, CourseProgressTransformer} ->
            [ns |-> "courses", path |-> "data.course_id", required |-> FALSE]
      [] OTHER -> [ns |-> "", path |-> "", required |-> FALSE]

\* Mutant: the progress reads are required, as the completion reads are.
ObjectIdArgs_ProgressRequired(c) ==
    CASE c \in {ModuleCompletionTransformer, ModuleProgressTransformer} ->
            [ns |-> "xblock", path |-> "data.block_id", required |-> TRUE]
      [] c \in {CourseCompletionTransformer, CourseProgressTransformer} ->
            [ns |-> "courses", path |-> "data.course_id", required |-> TRUE]
      [] OTHER -> [ns |-> "", path |-> "", required |-> FALSE]

\* The arguments of the object_id property bodies: the IRI namespace, the event
\* path read and whether the read is required.
ObjectIdArgs(c) ==
    CASE c = ModuleCompletionTransformer ->
            [ns |-> "xblock", path |-> "data.block_id", required |-> TRUE]
      [] c = CourseCompletionTransformer ->
            [ns |-> "courses", path |-> "data.course_id", required |-> TRUE]
      [] c = ModuleProgressTransformer ->
            [ns |-> "xblock", path |-> "data.block_id", required |-> FALSE]
      [] c = CourseProgressTransformer ->
            [ns |-> "courses", path |-> "data.course_id", required |-> FALSE]
      [] OTHER -> [ns |-> "", path |-> "", required |-> FALSE]

\* The registrations, in source order.
Registrations ==
    << [key |-> "openedx.completion_aggregator.completion.chapter",
        cls |-> ModuleCompletionTransformer],
       [key |-> "openedx.completion_aggregator.completion.sequential",
        cls |-> ModuleCompletionTransformer],
       [key |-> "openedx.completion_aggregator.completion.vertical",
        cls |-> LessonCompletionTransformer],
       [key |-> "openedx.completion_aggregator.completion.course",
        cls |-> CourseCompletionTransformer],
       [key |-> "openedx.completion_aggregator.progress.chapter",
        cls |-> ModuleProgressTransformer],
       [key |-> "openedx.completion_aggregator.progress.sequential",
        cls |-> ModuleProgressTransformer],
       [key |-> "openedx.completion_aggregator.progress.vertical",
        cls |-> LessonProgressTransformer],
       [key |-> "openedx.completion_aggregator.progress.course",
        cls |-> CourseProgressTransformer] >>

EventKeys == {Registrations[i].key : i \in DOMAIN Registrations}

\* The registry's lookup: the class registered under the key.
get_transformer(k) ==
    LET i == CHOOSE j \in DOMAIN Registrations : Registrations[j].key = k
    IN Registrations[i].cls

----------------------------------------------------------------------------
\* What the transformers use of XApiTransformer

Paths == {"data.block_id", "data.course_id", "data.percent", "context.course_id"}

\* get_value_from_dotted_path: the value at the path, None when it is missing.
get_value_from_dotted_path(ev, path) == IF ev[path] = Absent THEN None ELSE ev[path]

\* self.get_data(path, required): a None result of a required read raises.
get_data(ev, path, required) ==
    LET result == get_value_from_dotted_path(ev, path)
    IN IF result = None /\ required
       THEN [exc |-> "ValueError", val |-> None]
       ELSE [exc |-> "none", val |-> result]

\* self.get_object_iri(object_type, object_id): None without an identifier.
get_object_iri(ns, id) ==
    IF id = None THEN None
    ELSE PyStr(LMS_ROOT_URL \o "/" \o ns \o "/" \o PyFormat(id))

\* XApiTransformer.get_context_activities: the course of the event as parent.
base_get_context_activities(ev) ==
    LET cid == get_data(ev, "context.course_id", FALSE).val
    IN IF cid = None THEN None
       ELSE [t |-> "ContextActivities", n |-> 0, s |-> get_object_iri("course", cid).s]

----------------------------------------------------------------------------
\* The instance.  inst is the instance dictionary's object_id entry, which
\* cached_property fills.  hist records the reads of object_id made so far:
\* the calls the property bodies made, the first value read, the reads that
\* returned (nok) and that raised (nfail), and whether every value read
\* equalled the first.

NoInst == [has |-> FALSE, val |-> None]

NoHist ==
    [get_data |-> 0, get_object_iri |-> 0, first |-> [has |-> FALSE, val |-> None],
     nok |-> 0, nfail |-> 0, agree |-> TRUE]

\* A read of object_id that returned val.
ReadOk(h, val) ==
    [h EXCEPT !.first = IF h.first.has THEN h.first ELSE [has |-> TRUE, val |-> val],
              !.nok = @ + 1,
              !.agree = h.agree /\ (h.first.has => val = h.first.val)]

\* The body of the object_id property of class c: get_data, then get_object_iri.
object_id_func(c, ev) ==
    LET a == ObjectIdArgs(c)
        g == get_data(ev, a.path, a.required)
    IN IF g.exc # "none"
       THEN [exc |-> g.exc, val |-> None, get_data |-> 1, get_object_iri |-> 0]
       ELSE [exc |-> "none", val |-> get_object_iri(a.ns, g.val),
             get_data |-> 1, get_object_iri |-> 1]

\* Mutant: a memo that takes a stored None for "not computed yet".
cached_property_store_SkipNone(d, r) ==
    IF r.exc # "none" \/ r.val = None THEN d ELSE [has |-> TRUE, val |-> r.val]

\* cached_property.__get__ on a miss: the body's result is stored in the
\* instance dictionary whatever it is; a body that raises stores nothing.
cached_property_store(d, r) ==
    IF r.exc # "none" THEN d ELSE [has |-> TRUE, val |-> r.val]

\* self.object_id: the instance dictionary first (cached_property is a
\* non-data descriptor), then the class attribute along the MRO.
object_id(c, ev, d, h) ==
    LET owner == Resolve(c, "object_id")
    IN IF d.has
       THEN [exc |-> "none", val |-> d.val, inst |-> d, hist |-> ReadOk(h, d.val)]
       ELSE IF owner = "object"
       THEN [exc |-> "AttributeError", val |-> None, inst |-> d, hist |-> h]
       ELSE IF owner = BaseCompletionTransformer
       THEN [exc |-> "none", val |-> None, inst |-> d, hist |-> ReadOk(h, None)]
       ELSE LET r == object_id_func(owner, ev)
                h1 == [h EXCEPT !.get_data = @ + r.get_data,
                                !.get_object_iri = @ + r.get_object_iri]
            IN IF r.exc # "none"
               THEN [exc |-> r.exc, val |-> None, inst |-> cached_property_store(d, r),
                     hist |-> [h1 EXCEPT !.nfail = @ + 1]]
               ELSE [exc |-> "none", val |-> r.val, inst |-> cached_property_store(d, r),
                     hist |-> ReadOk(h1, r.val)]

NoActivity == [id |-> None, type |-> None]

\* BaseCompletionTransformer.get_object
completion_get_object(c, ev, d, h) ==
    LET ot == object_type(c)
        r1 == object_id(c, ev, d, h)
        r2 == object_id(c, ev, r1.inst, r1.hist)
    IN IF ~Truthy(ot)
       THEN [exc |-> "NotImplementedError", obj |-> NoActivity, inst |-> d, hist |-> h]
       ELSE IF r1.exc # "none"
       THEN [exc |-> r1.exc, obj |-> NoActivity, inst |-> r1.inst, hist |-> r1.hist]
       ELSE IF ~Truthy(r1.val)
       THEN [exc |-> "NotImplementedError", obj |-> NoActivity,
             inst |-> r1.inst, hist |-> r1.hist]
       ELSE IF r2.exc # "none"
       THEN [exc |-> r2.exc, obj |-> NoActivity, inst |-> r2.inst, hist |-> r2.hist]
       ELSE [exc |-> "none", obj |-> [id |-> r2.val, type |-> ot],
             inst |-> r2.inst, hist |-> r2.hist]

\* Mutant: the completion base's guard, `or not self.object_id`, copied over.
progress_get_object_IdGuard(c, ev, d, h) ==
    LET ot == object_type(c)
        r == object_id(c, ev, d, h)
    IN IF ~Truthy(ot)
       THEN [exc |-> "NotImplementedError", obj |-> NoActivity, inst |-> d, hist |-> h]
       ELSE IF r.exc # "none"
       THEN [exc |-> r.exc, obj |-> NoActivity, inst |-> r.inst, hist |-> r.hist]
       ELSE IF ~Truthy(r.val)
       THEN [exc |-> "NotImplementedError", obj |-> NoActivity,
             inst |-> r.inst, hist |-> r.hist]
       ELSE [exc |-> "none", obj |-> [id |-> r.val, type |-> ot],
             inst |-> r.inst, hist |-> r.hist]

\* BaseProgressTransformer.get_object
progress_get_object(c, ev, d, h) ==
    LET ot == object_type(c)
        r == object_id(c, ev, d, h)
    IN IF ~Truthy(ot)
       THEN [exc |-> "NotImplementedError", obj |-> NoActivity, inst |-> d, hist |-> h]
       ELSE IF r.exc # "none"
       THEN [exc |-> r.exc, obj |-> NoActivity, inst |-> r.inst, hist |-> r.hist]
       ELSE [exc |-> "none", obj |-> [id |-> r.val, type |-> ot],
             inst |-> r.inst, hist |-> r.hist]

\* self.get_object()
get_object(c, ev, d, h) ==
    IF Resolve(c, "get_object") = BaseCompletionTransformer
    THEN completion_get_object(c, ev, d, h)
    ELSE progress_get_object(c, ev, d, h)

\* Mutant: completion from `progress >= 1.0`.
get_result_AtLeastOne(ev) ==
    LET progress == PyOr(get_data(ev, "data.percent", FALSE).val, PyInt(0))
    IN [completion |-> IsNumber(progress) /\ Tenths(progress) >= 10,
        scaled |-> PyOr(get_data(ev, "data.percent", FALSE).val, PyInt(0))]

\* Mutant: the score without the `or 0` default.
get_result_NoDefault(ev) ==
    LET progress == PyOr(get_data(ev, "data.percent", FALSE).val, PyInt(0))
    IN [completion |-> PyEq(progress, PyFloat10(10)),
        scaled |-> get_data(ev, "data.percent", FALSE).val]

\* BaseProgressTransformer.get_result
get_result(ev) ==
    LET progress == PyOr(get_data(ev, "data.percent", FALSE).val, PyInt(0))
    IN [completion |-> PyEq(progress, PyFloat10(10)),
        scaled |-> PyOr(get_data(ev, "data.percent", FALSE).val, PyInt(0))]

\* self.get_verb(): the _verb the class inherits.
get_verb(c) == ClassVerb(Resolve(c, "_verb"))

\* self.get_context_activities(): the course transformers' override returns
\* None, the other classes inherit XApiTransformer's.
get_context_activities(c, ev) ==
    IF Resolve(c, "get_context_activities") \in
         {CourseCompletionTransformer, CourseProgressTransformer}
    THEN None
    ELSE base_get_context_activities(ev)

----------------------------------------------------------------------------
\* The events and the calls

BlockIds == {Absent, None, PyStr(""), PyStr("b1"), PyInt(0)}
CourseIds == {Absent, None, PyStr(""), PyStr("c1")}
Percents ==
    {Absent, None, PyBool(FALSE), PyBool(TRUE), PyInt(0), PyInt(1), PyInt(-1),
     PyFloat10(0), PyFloat10(5), PyFloat10(10), PyFloat10(15), PyStr("")}
ContextCourseIds == {Absent, PyStr("c1")}

Events ==
    {[p \in Paths |->
        CASE p = "data.block_id" -> b
          [] p = "data.course_id" -> co
          [] p = "data.percent" -> pc
          [] OTHER -> cc] :
       b \in BlockIds, co \in CourseIds, pc \in Percents, cc \in ContextCourseIds}

NoResult == [completion |-> FALSE, scaled |-> None]
NoVerb == [id |-> "", display |-> ""]

NoRet ==
    [op |-> "none", exc |-> "none", val |-> None, obj |-> NoActivity,
     result |-> NoResult, verb |-> NoVerb]

\* A transformer is built for one event: by the registry for the event's key,
\* or (key "") from one of the two base classes directly.
Init ==
    /\ event \in Events
    /\ \/ key \in EventKeys /\ cls = get_transformer(key)
       \/ key = "" /\ cls \in BaseClasses
    /\ inst = NoInst
    /\ hist = NoHist
    /\ ret = NoRet
    /\ nops = 0

\* transformer.object_id
ReadObjectId ==
    /\ nops < MaxOps
    /\ LET r == object_id(cls, event, inst, hist)
       IN /\ inst' = r.inst
          /\ hist' = r.hist
          /\ ret' = [NoRet EXCEPT !.op = "object_id", !.exc = r.exc, !.val = r.val]
    /\ nops' = nops + 1
    /\ UNCHANGED <<key, cls, event>>

\* transformer.get_object()
GetObject ==
    /\ nops < MaxOps
    /\ LET r == get_object(cls, event, inst, hist)
       IN /\ inst' = r.inst
          /\ hist' = r.hist
          /\ ret' = [NoRet EXCEPT !.op = "get_object", !.exc = r.exc, !.obj = r.obj]
    /\ nops' = nops + 1
    /\ UNCHANGED <<key, cls, event>>

\* transformer.get_result(), which only the progress classes have
GetResult ==
    /\ nops < MaxOps
    /\ Resolve(cls, "get_result") # "object"
    /\ ret' = [NoRet EXCEPT !.op = "get_result", !.result = get_result(event)]
    /\ nops' = nops + 1
    /\ UNCHANGED <<key, cls, event, inst, hist>>

\* transformer.get_verb()
GetVerb ==
    /\ nops < MaxOps
    /\ ret' = [NoRet EXCEPT !.op = "get_verb", !.verb = get_verb(cls)]
    /\ nops' = nops + 1
    /\ UNCHANGED <<key, cls, event, inst, hist>>

\* transformer.get_context_activities()
GetContextActivities ==
    /\ nops < MaxOps
    /\ ret' = [NoRet EXCEPT !.op = "get_context_activities",
                            !.val = get_context_activities(cls, event)]
    /\ nops' = nops + 1
    /\ UNCHANGED <<key, cls, event, inst, hist>>

Next ==
    \/ ReadObjectId
    \/ GetObject
    \/ GetResult
    \/ GetVerb
    \/ GetContextActivities

Spec == Init /\ [][Next]_vars

----------------------------------------------------------------------------
\* The claims

CompletionKeys ==
    {"openedx.completion_aggregator.completion.chapter",
     "openedx.completion_aggregator.completion.sequential",
     "openedx.completion_aggregator.completion.vertical",
     "openedx.completion_aggregator.completion.course"}
ProgressKeys ==
    {"openedx.completion_aggregator.progress.chapter",
     "openedx.completion_aggregator.progress.sequential",
     "openedx.completion_aggregator.progress.vertical",
     "openedx.completion_aggregator.progress.course"}

\* The event holds no value at the path: the key is missing, or holds None,
\* which the payload accessor does not tell apart.
Lacks(path) == event[path] \in {Absent, None}

\* C1: all eight keys are registered, and the transformer built for a
\* completion key answers get_verb with the verb "completed", the transformer
\* built for a progress key with the verb "progressed", whatever the payload.
C1_VerbMatchesKey ==
    /\ EventKeys = CompletionKeys \cup ProgressKeys
    /\ ret.op = "get_verb" /\ key \in CompletionKeys =>
          ret.verb = [id |-> XAPI_VERB_COMPLETED, display |-> "completed"]
    /\ ret.op = "get_verb" /\ key \in ProgressKeys =>
          ret.verb = [id |-> XAPI_VERB_PROGRESSED, display |-> "progressed"]

C1_Witness ==
    /\ ret.op = "get_verb"
    /\ key = "openedx.completion_aggregator.progress.vertical"
    /\ ret.verb.display = "progressed"
    /\ event["data.percent"] = PyFloat10(5)

\* C2: get_object of the module and lesson completion transformers returns,
\* for a payload that carries data.block_id = b, an object whose identifier is
\* get_object_iri("xblock", b); for a payload without data.block_id it fails
\* with the accessor's required-field error and produces no object.
C2_RequiredBlockId ==
    ret.op = "get_object"
      /\ cls \in {ModuleCompletionTransformer, LessonCompletionTransformer} =>
        IF Lacks("data.block_id")
        THEN ret.exc = "ValueError" /\ ret.obj = NoActivity /\ ~inst.has
        ELSE /\ ret.exc = "none"
             /\ ret.obj.id = get_object_iri("xblock", event["data.block_id"])
             /\ ret.obj.id.t = "str"

C2_Witness ==
    /\ ret.op = "get_object"
    /\ cls = ModuleCompletionTransformer
    /\ event["data.block_id"] = PyStr("b1")
    /\ ret.obj.id = PyStr("http://lms/xblock/b1")

C2_WitnessMissing ==
    /\ ret.op = "get_object"
    /\ cls = LessonCompletionTransformer
    /\ event["data.block_id"] = Absent
    /\ ret.exc = "ValueError"

FalsyPercents == {Absent, None, PyBool(FALSE), PyInt(0), PyFloat10(0), PyStr("")}
OnePercents == {PyBool(TRUE), PyInt(1), PyFloat10(10)}

\* C3: get_result returns score.scaled = 0 when data.percent is missing, None,
\* 0 or otherwise falsy, and data.percent itself, unclamped, otherwise; and
\* completion is true exactly when that scaled value equals 1.0.
C3_ScaledIsPercentOrZero ==
    ret.op = "get_result" =>
      /\ event["data.percent"] \in FalsyPercents => ret.result.scaled = PyInt(0)
      /\ event["data.percent"] \notin FalsyPercents =>
            ret.result.scaled = event["data.percent"]
      /\ ret.result.completion <=> ret.result.scaled \in OnePercents

C3_Witness ==
    /\ ret.op = "get_result"
    /\ event["data.percent"] = PyFloat10(15)
    /\ ret.result.scaled = PyFloat10(15)
    /\ ~ret.result.completion

C3_WitnessComplete ==
    /\ ret.op = "get_result"
    /\ event["data.percent"] = PyFloat10(10)
    /\ ret.result.completion

\* A number within [0, 1].
InUnitRange(v) == IsNumber(v) /\ 0 <= Tenths(v) /\ Tenths(v) <= 10

\* C4, as claimed: the scaled score returned by get_result is always within
\* [0, 1].
C4_ScaledAlwaysInUnitRange ==
    ret.op = "get_result" => InUnitRange(ret.result.scaled)

\* C4, amended: the scaled score is within [0, 1] whenever data.percent is
\* missing, falsy or itself within [0, 1]; a percent outside [0, 1] is returned
\* as it is.
C4_ScaledInUnitRangeIfPercentIs ==
    ret.op = "get_result" =>
      /\ event["data.percent"] \in FalsyPercents \/ InUnitRange(event["data.percent"]) =>
            InUnitRange(ret.result.scaled)
      /\ event["data.percent"] \notin FalsyPercents /\ ~InUnitRange(event["data.percent"]) =>
            ret.result.scaled = event["data.percent"] /\ ~InUnitRange(ret.result.scaled)

C4_Witness ==
    /\ ret.op = "get_result"
    /\ event["data.percent"] = Absent
    /\ ret.result.scaled = PyInt(0)

\* C5: get_context_activities of the course completion and course progress
\* transformers returns None for every payload, also when the event names its
\* course; the module and lesson transformers answer with XApiTransformer's
\* context activities.
C5_CourseHasNoContextActivities ==
    ret.op = "get_context_activities" =>
      /\ cls \in {CourseCompletionTransformer, CourseProgressTransformer} => ret.val = None
      /\ cls \in ConcreteClasses \ {CourseCompletionTransformer, CourseProgressTransformer} =>
            ret.val = base_get_context_activities(event)

C5_Witness ==
    /\ ret.op = "get_context_activities"
    /\ cls = CourseProgressTransformer
    /\ event["context.course_id"] = PyStr("c1")
    /\ ret.val = None

C5_WitnessModule ==
    /\ ret.op = "get_context_activities"
    /\ cls = LessonCompletionTransformer
    /\ ret.val.t = "ContextActivities"

\* The event path a class's identifier is read from, and the class's activity type.
IdPath(c) ==
    IF c \in {CourseCompletionTransformer, CourseProgressTransformer}
    THEN "data.course_id" ELSE "data.block_id"
ActivityType(c) ==
    CASE c \in {ModuleCompletionTransformer, ModuleProgressTransformer} ->
            PyStr("http://adlnet.gov/expapi/activities/module")
      [] c \in {LessonCompletionTransformer, LessonProgressTransformer} ->
            PyStr("http://adlnet.gov/expapi/activities/lesson")
      [] OTHER -> PyStr("http://adlnet.gov/expapi/activities/course")

\* C6: get_object of a progress transformer does not fail on a payload without
\* the identifier field: it returns an object of the transformer's type whose
\* identifier is None.
C6_ProgressIdOptional ==
    ret.op = "get_object" /\ cls \in ProgressClasses /\ Lacks(IdPath(cls)) =>
      /\ ret.exc = "none"
      /\ ret.obj = [id |-> None, type |-> ActivityType(cls)]

C6_Witness ==
    /\ ret.op = "get_object"
    /\ cls = CourseProgressTransformer
    /\ event["data.course_id"] = Absent
    /\ ret.obj.type = PyStr(XAPI_ACTIVITY_COURSE)
    /\ ret.obj.id = None

\* C7, as claimed: for the course completion transformer a payload without
\* data.course_id raises no required-field failure when the identifier is
\* derived.
C7_CourseIdOptional ==
    cls = CourseCompletionTransformer /\ ret.op \in {"object_id", "get_object"}
      /\ Lacks("data.course_id") => ret.exc # "ValueError"

\* C7, amended: for the course completion transformer a payload without
\* data.course_id is a hard failure, as a missing data.block_id is for the
\* module and lesson completion transformers: reading object_id and get_object
\* both raise the accessor's required-field error, and no object is produced.
C7_CourseIdRequired ==
    cls = CourseCompletionTransformer /\ ret.op \in {"object_id", "get_object"}
      /\ Lacks("data.course_id") =>
        ret.exc = "ValueError" /\ ret.obj = NoActivity /\ ~inst.has

C7_Witness ==
    /\ cls = CourseCompletionTransformer
    /\ ret.op = "get_object"
    /\ event["data.course_id"] = Absent
    /\ ret.exc = "ValueError"

\* C8: on one instance of a concrete transformer, every read of object_id that
\* returns (directly or inside get_object) returns the value of the first one,
\* and the property body (get_data, then get_object_iri) has then run exactly
\* once, however many reads followed; a read that raises caches nothing, so
\* each later read runs get_data again and raises again.
C8_ObjectIdMemoized ==
    cls \in ConcreteClasses =>
      /\ hist.agree
      /\ ret.op = "object_id" /\ ret.exc = "none" =>
            hist.first.has /\ ret.val = hist.first.val
      /\ ret.op = "get_object" /\ ret.exc = "none" =>
            hist.first.has /\ ret.obj.id = hist.first.val
      /\ hist.first.has =>
            /\ inst = [has |-> TRUE, val |-> hist.first.val]
            /\ hist.get_data = 1 /\ hist.get_object_iri = 1
            /\ hist.nfail = 0 /\ hist.nok >= 1
      /\ ~hist.first.has =>
            /\ inst = NoInst
            /\ hist.get_data = hist.nfail /\ hist.get_object_iri = 0
            /\ hist.nok = 0

C8_Witness ==
    /\ cls = ModuleProgressTransformer
    /\ event["data.block_id"] = Absent
    /\ ret.op = "object_id"
    /\ hist.nok >= 3
    /\ hist.get_data = 1
    /\ hist.first = [has |-> TRUE, val |-> None]

C8_WitnessFailedTwice ==
    /\ cls = CourseCompletionTransformer
    /\ ret.op = "object_id"
    /\ ret.exc = "ValueError"
    /\ hist.nfail >= 2

\* The module class a lesson class derives from.
ModuleOf(c) ==
    IF c = LessonCompletionTransformer THEN ModuleCompletionTransformer
    ELSE ModuleProgressTransformer

\* The same activity but for its type, which is the lesson's where the
\* module's is the module's.
SameButType(lesson, module) ==
    /\ lesson.id = module.id
    /\ \/ lesson.type = None /\ module.type = None
       \/ /\ lesson.type = PyStr("http://adlnet.gov/expapi/activities/lesson")
          /\ module.type = PyStr("http://adlnet.gov/expapi/activities/module")

\* One call on a lesson transformer, against the same call on the module
\* transformer of its family in the same state.
LessonStep ==
    cls \in {LessonCompletionTransformer, LessonProgressTransformer} =>
        LET m == ModuleOf(cls)
            o == get_object(m, event, inst, hist)
            i == object_id(m, event, inst, hist)
        IN /\ ret'.op = "get_object" =>
                /\ ret'.exc = o.exc /\ SameButType(ret'.obj, o.obj)
                /\ inst' = o.inst /\ hist' = o.hist
           /\ ret'.op = "object_id" =>
                /\ ret'.exc = i.exc /\ ret'.val = i.val
                /\ inst' = i.inst /\ hist' = i.hist
           /\ ret'.op = "get_verb" => ret'.verb = get_verb(m)
           /\ ret'.op = "get_context_activities" =>
                ret'.val = get_context_activities(m, event)
           /\ ret'.op = "get_result" =>
                Resolve(m, "get_result") # "object" /\ ret'.result = get_result(event)

\* C9: every call on a lesson transformer has the outcome the same call has on
\* the module transformer of its family for the same payload and the same
\* instance state: the same verb, object identifier, failure, result, context
\* activities and the same memoized state afterwards; only the object's type
\* differs.
C9_LessonAsModule == [][LessonStep]_vars

C9_Witness ==
    /\ cls = LessonCompletionTransformer
    /\ ret.op = "get_object"
    /\ ret.exc = "none"
    /\ ret.obj = [id |-> PyStr("http://lms/xblock/b1"), type |-> PyStr(XAPI_ACTIVITY_LESSON)]

C9_WitnessFails ==
    /\ cls = LessonCompletionTransformer
    /\ ret.op = "get_object"
    /\ ret.exc = "ValueError"

\* C10: get_object raises NotImplementedError on none of the six registered
\* classes, whatever the payload, an identifier field that is present but
\* falsy or missing included; it does on the two base classes.
C10_NotImplementedOnlyOnBases ==
    /\ cls \in ConcreteClasses => ret.exc # "NotImplementedError"
    /\ key \in EventKeys => cls \in ConcreteClasses
    /\ cls \in BaseClasses /\ ret.op = "get_object" => ret.exc = "NotImplementedError"

C10_Witness ==
    /\ cls = ModuleCompletionTransformer
    /\ event["data.block_id"] = PyStr("")
    /\ ret.op = "get_object"
    /\ ret.exc = "none"

C10_WitnessBase ==
    /\ cls = BaseCompletionTransformer
    /\ ret.op = "get_object"
    /\ ret.exc = "NotImplementedError"

====
